---- MODULE Spec2Model ----
(***************************************************************************)
(* teamcity-ldap-sync: one run of main() resolves the configured directory *)
(* groups and reconciles the TeamCity groups, users and memberships with   *)
(* them.  The directory and the TeamCity server are the environment; the   *)
(* client keeps a cache of the server's groups and users.                  *)
(***************************************************************************)
EXTENDS Integers, Sequences, FiniteSets, TLC

\* ------------------------------------------------------------------ bounds
\* Number of back-to-back runs of main() against the same directory.
MaxRuns == 2

\* ------------------------------------------------------- program constants
\* create_group: the key of a new group is group_name[:16].
KeyLen == 16
\* get_tc_groups keeps the server groups whose name contains this text.
Marker == ".Zabbix."

\* ------------------------------------------------------------ string tools
Min(a, b) == IF a < b THEN a ELSE b

\* Python s[:n]
Slice(s, n) == SubSeq(s, 1, Min(n, Len(s)))

\* Python `m in s` for strings
Contains(s, m) == \E i \in 1..(Len(s) - Len(m) + 1) : SubSeq(s, i, i + Len(m) - 1) = m

UpperChars == "ABCDEFGHIJKLMNOPQRSTUVWXYZ"
LowerChars == "abcdefghijklmnopqrstuvwxyz"

LowerChar(c) ==
    IF \E i \in 1..Len(UpperChars) : SubSeq(UpperChars, i, i) = c
    THEN LET i == CHOOSE j \in 1..Len(UpperChars) : SubSeq(UpperChars, j, j) = c
         IN  SubSeq(LowerChars, i, i)
    ELSE c

\* Python str.lower()
RECURSIVE lower(_)
lower(s) == IF s = "" THEN "" ELSE LowerChar(SubSeq(s, 1, 1)) \o lower(SubSeq(s, 2, Len(s)))

\* The directory server's match of a cn filter value with * wildcards.
RECURSIVE Glob(_, _)
Glob(p, s) ==
    IF p = "" THEN s = ""
    ELSE IF SubSeq(p, 1, 1) = "*"
         THEN \E k \in 0..Len(s) : Glob(SubSeq(p, 2, Len(p)), SubSeq(s, k + 1, Len(s)))
         ELSE /\ s # ""
              /\ SubSeq(s, 1, 1) = SubSeq(p, 1, 1)
              /\ Glob(SubSeq(p, 2, Len(p)), SubSeq(s, 2, Len(s)))

Range(q) == {q[i] : i \in 1..Len(q)}

RECURSIVE Flatten(_)
Flatten(qq) == IF qq = <<>> THEN <<>> ELSE Head(qq) \o Flatten(Tail(qq))

\* -------------------------------------------------------------- directory
\* The user entries of the directory (they are the same in every run).
DirUsers ==
    << [dn |-> "CN=alice,OU=People", sAMAccountName |-> "alice", disabled |-> FALSE],
       [dn |-> "CN=Bob,OU=People",   sAMAccountName |-> "Bob",   disabled |-> TRUE] >>

UserDn(name) == "CN=" \o name \o ",OU=People"
GroupDn(cn)  == "CN=" \o cn \o ",OU=Groups"
GroupEntry(cn, member) == [cn |-> cn, dn |-> GroupDn(cn), member |-> member]

\* The group entries of the directory: flat groups, nested groups with a
\* cycle, and a sparse directory in which configured groups are missing.
DirFlat ==
    << GroupEntry("T.Zabbix.Dev", <<UserDn("alice"), UserDn("Bob")>>),
       GroupEntry("R.Ops.Zabbix.App.Admins", <<UserDn("alice")>>),
       GroupEntry("R.Ops.Zabbix.App.Users", <<UserDn("Bob")>>),
       GroupEntry("App.Admins", <<UserDn("Bob"), UserDn("alice")>>) >>

DirNested ==
    << GroupEntry("T.Zabbix.Dev", <<UserDn("alice"), GroupDn("R.Ops.Zabbix.App.Admins")>>),
       GroupEntry("R.Ops.Zabbix.App.Admins", <<UserDn("Bob"), GroupDn("T.Zabbix.Dev")>>),
       GroupEntry("App.Admins", <<>>) >>

DirSparse ==
    << GroupEntry("R.Ops.Zabbix.App.Users", <<>>),
       GroupEntry("T.Zabbix.Dev", <<UserDn("Bob")>>) >>

Directories == {DirFlat, DirNested, DirSparse}

\* ---------------------------------------------------------- configuration
\* [ldap] groups of the configuration file with the -w flag of the run.
Configs ==
    { [wildcard |-> FALSE, groups |-> <<"T.Zabbix.Dev">>],
      [wildcard |-> FALSE, groups |-> <<"App.Admins">>],
      [wildcard |-> FALSE, groups |-> <<"T.Zabbix.Dev", "R.Ops.Zabbix.App.Admins">>],
      [wildcard |-> FALSE, groups |-> <<"R.Ops.Zabbix.App.Admins", "T.Zabbix.Dev">>],
      [wildcard |-> FALSE, groups |-> <<"R.Ops.Zabbix.App.Admins", "R.Ops.Zabbix.App.Users">>],
      [wildcard |-> FALSE, groups |-> <<"App.Admins", "T.Zabbix.Dev">>],
      [wildcard |-> TRUE,  groups |-> <<"T.*">>],
      [wildcard |-> TRUE,  groups |-> <<"X.*", "T.*">>],
      [wildcard |-> TRUE,  groups |-> <<"X.*">>],
      [wildcard |-> TRUE,  groups |-> <<"R.*", "*.Dev">>] }

\* Usernames the TeamCity server may hold.
UserNames == {"alice", "Bob", "bob"}

VARIABLES
    args,               \* the command line flags (get_args)
    ldap_type,          \* config.ldap_type
    config_groups,      \* config.ldap_groups as read from the file
    directory,          \* the group entries of the directory
    srvGroups,          \* TeamCity: the user groups, records [name, key]
    srvUsers,           \* TeamCity: the usernames
    srvUserGroups,      \* TeamCity: username -> the names of the user's groups
    ldap_groups,        \* self.ldap_groups: the concrete groups of the run
    tc_groups,          \* self.tc_groups: the cached groups
    tc_users,           \* self.tc_users: the cached usernames
    gi,                 \* position of `for group in self.ldap_groups`
    ldap_group_users,   \* start_sync: username -> dn, or None
    tc_group_users,     \* start_sync: the usernames fetched for the group
    todo,               \* the items the current inner loop has not visited
    pc,                 \* position of the run
    error,              \* the exception that ended the run, "" if none
    log,                \* the mutating requests sent to TeamCity in this run
    mark,               \* Len(log) when the current group was entered
    run,                \* number of the run
    failed,             \* a TeamCity request of some run failed in transit
    srvGroups0,         \* the names of the server's groups when the run began
    srvUsers0           \* the server's usernames when the run began

vars == << args, ldap_type, config_groups, directory, srvGroups, srvUsers,
           srvUserGroups, ldap_groups, tc_groups, tc_users, gi, ldap_group_users,
           tc_group_users, todo, pc, error, log, mark, run, failed, srvGroups0, srvUsers0 >>

inputs == << args, ldap_type, config_groups, directory >>
server == << srvGroups, srvUsers, srvUserGroups >>

\* ------------------------------------------------------------- LDAPConn
\* conn.search with the group filter: the group entries whose cn matches.
SearchGroups(dir, value) == SelectSeq(dir, LAMBDA e : Glob(value, e.cn))

\* The group DNs nested, at any depth, in the groups of `seen` (the server's
\* evaluation of the member-of chain filter).
RECURSIVE NestedGroups(_, _)
NestedGroups(dir, seen) ==
    LET more == {m \in UNION {Range(dir[i].member) : i \in {j \in 1..Len(dir) : dir[j].dn \in seen}} :
                    \E k \in 1..Len(dir) : dir[k].dn = m}
    IN  IF more \subseteq seen THEN seen ELSE NestedGroups(dir, seen \cup more)

\* Lines 142-160 with a filter that matches the group's own members only.
RecursiveMembers_Direct(dir, a, result_dn) ==
    LET InGroup(u) == \E i \in 1..Len(dir) : dir[i].dn = result_dn /\ u.dn \in Range(dir[i].member)
    IN  SelectSeq(DirUsers, LAMBDA u : InGroup(u) /\ (a.skip_disabled => ~u.disabled))

\* Lines 142-160: one query for the users that are members of the group
\* directly or through nested groups, conjoined with the disabled filter.
RecursiveMembers(dir, a, result_dn) ==
    LET chain == NestedGroups(dir, {result_dn})
        InChain(u) == \E i \in 1..Len(dir) : dir[i].dn \in chain /\ u.dn \in Range(dir[i].member)
    IN  SelectSeq(DirUsers, LAMBDA u : InChain(u) /\ (a.skip_disabled => ~u.disabled))

\* Lines 170-173: the search below one member reference with the user filter.
SearchMember(a, member) ==
    SelectSeq(DirUsers, LAMBDA u : u.dn = member /\ (a.skip_disabled => ~u.disabled))

\* Lines 164-177: group_members is assigned the entries of each search that
\* found something.
RECURSIVE DirectMembers(_, _, _)
DirectMembers(a, members, group_members) ==
    IF members = <<>> THEN group_members
    ELSE LET uid == SearchMember(a, Head(members))
         IN  DirectMembers(a, Tail(members), IF uid # <<>> THEN uid ELSE group_members)

\* Lines 182-187 without lines 184-185: the name as the directory has it.
Username_Raw(a, item) == item.sAMAccountName

\* Lines 182-185
Username(a, item) == IF a.lowercase THEN lower(item.sAMAccountName) ELSE item.sAMAccountName

\* Lines 179-189: username -> dn, a later item replacing an earlier one.
FinalListing(a, group_members) ==
    [ name \in {Username(a, group_members[i]) : i \in 1..Len(group_members)} |->
        LET last == CHOOSE i \in 1..Len(group_members) :
                        /\ Username(a, group_members[i]) = name
                        /\ \A j \in (i + 1)..Len(group_members) : Username(a, group_members[j]) # name
        IN  group_members[last].dn ]

NoneMembers  == [kind |-> "None", items |-> <<>>]
RaiseMembers == [kind |-> "raise", items |-> <<>>]
DictMembers(d) == [kind |-> "dict", items |-> d]

\* LDAPConn.get_group_members.  The generic branch calls result.pop() on the
\* boolean that conn.search returned, which raises.
get_group_members(dir, a, type, group) ==
    LET result == SearchGroups(dir, group)
    IN  IF result = <<>> THEN NoneMembers
        ELSE IF type = "activedirectory"
             THEN LET entry == result[Len(result)]
                      group_members == IF a.recursive
                                       THEN RecursiveMembers(dir, a, entry.dn)
                                       ELSE DirectMembers(a, entry.member, <<>>)
                  IN  DictMembers(FinalListing(a, group_members))
             ELSE RaiseMembers

Keys(d) == DOMAIN d.items

\* LDAPConn.get_groups_with_wildcard
get_groups_with_wildcard(dir, groups_wildcard) ==
    LET result == SearchGroups(dir, groups_wildcard)
    IN  [i \in 1..Len(result) |-> result[i].cn]

\* TeamCityLDAPConf.set_groups_with_wildcard: the concatenated matches.
ExpandedGroups(dir, groups) ==
    Flatten([i \in 1..Len(groups) |-> get_groups_with_wildcard(dir, groups[i])])

\* Line 328 without the test: an empty expansion is taken as the groups.
ExpansionAccepted_Always(result_groups) == TRUE

\* Line 328: the run goes on when the concatenation is not empty.
ExpansionAccepted(result_groups) == result_groups # <<>>

\* ------------------------------------------------------- TeamCityClient
GroupKey(group_name) == Slice(group_name, KeyLen)

\* TeamCityClient.get_tc_groups
get_tc_groups(groups) == {g \in groups : Contains(g.name, Marker)}

Names(groups) == {g.name : g \in groups}

\* Line 422
NeedsCreateGroup(group, cached) == group \notin Names(cached)

\* The server's answer to POST userGroups: names and keys are unique.
GroupsAfterCreate(groups, group_name) ==
    IF \E g \in groups : g.name = group_name \/ g.key = GroupKey(group_name)
    THEN groups
    ELSE groups \cup {[name |-> group_name, key |-> GroupKey(group_name)]}

\* Lines 427-428
UsersToCreate(desired, known) == {login \in desired : login \notin known}

\* Lines 442-443 without the test of line 443: every desired user is added.
UsersToAdd_All(desired, observed) == desired

\* Lines 442-443
UsersToAdd(desired, observed) == {user \in desired : user \notin observed}

\* Lines 447-448
UsersToRemove(desired, observed) == {user \in observed : user \notin desired}

\* The server's answer to GET userGroups/key:<key>.
MembersOfKey(key) ==
    {u \in srvUsers : \E g \in srvGroups : g.key = key /\ g.name \in srvUserGroups[u]}

Mutation(op, group, user) == [op |-> op, group |-> group, user |-> user]

Crash(e) == /\ pc' = "crashed"
            /\ error' = e
            /\ todo' = {}

\* ------------------------------------------------------------ initial state
\* The groups, users and memberships TeamCity holds before the first run.
\* Earlier runs created the groups, so a key is the first KeyLen characters
\* of the name and no two groups share one.
InitialGroupSets ==
    { {}, {"T.Zabbix.Dev"}, {"App.Admins"}, {"T.Zabbix.Dev", "R.Ops.Zabbix.App.Admins"},
      {"App.Admins", "T.Zabbix.Dev"} }

InitialUserSets == { {}, {"alice"}, {"bob"}, {"alice", "Bob"} }

Init ==
    /\ \E cfg \in Configs, recursive \in BOOLEAN, lowercase \in BOOLEAN, skip_disabled \in BOOLEAN :
          /\ args = [wildcard_search |-> cfg.wildcard, recursive |-> recursive,
                     lowercase |-> lowercase, skip_disabled |-> skip_disabled]
          /\ config_groups = cfg.groups
    /\ ldap_type \in {"activedirectory", "openldap"}
    /\ directory \in Directories
    /\ \E names \in InitialGroupSets, users \in InitialUserSets :
          /\ srvGroups = {[name |-> n, key |-> GroupKey(n)] : n \in names}
          /\ srvUsers = users
          /\ \E members \in SUBSET users :
                /\ names = {} => members = {}
                /\ srvUserGroups = [u \in UserNames |-> IF u \in members THEN names ELSE {}]
          /\ srvGroups0 = names
          /\ srvUsers0 = users
    /\ ldap_groups = <<>>
    /\ tc_groups = {}
    /\ tc_users = {}
    /\ gi = 0
    /\ ldap_group_users = NoneMembers
    /\ tc_group_users = {}
    /\ todo = {}
    /\ pc = "main"
    /\ error = ""
    /\ log = <<>>
    /\ mark = 0
    /\ run = 1
    /\ failed = FALSE

\* ------------------------------------------------------------------ main
\* main without -w, up to the entry of start_sync: the configured names are
\* the groups of the run; TeamCityClient.__init__ fills the two caches.
main_literal ==
    /\ pc = "main"
    /\ ~args.wildcard_search
    /\ ldap_groups' = config_groups
    /\ tc_groups' = get_tc_groups(srvGroups)
    /\ tc_users' = srvUsers
    /\ gi' = 1
    /\ pc' = "loop"
    /\ UNCHANGED << inputs, server, ldap_group_users, tc_group_users, todo, error,
                    log, mark, run, failed, srvGroups0, srvUsers0 >>

\* main with -w: set_groups_with_wildcard replaces the configured specs by
\* the names they match, or ends the run with SystemExit.
main_wildcard ==
    /\ pc = "main"
    /\ args.wildcard_search
    /\ LET result_groups == ExpandedGroups(directory, config_groups)
       IN  IF ExpansionAccepted(result_groups)
           THEN /\ ldap_groups' = result_groups
                /\ tc_groups' = get_tc_groups(srvGroups)
                /\ tc_users' = srvUsers
                /\ gi' = 1
                /\ pc' = "loop"
                /\ error' = error
           ELSE /\ pc' = "aborted"
                /\ error' = "SystemExit"
                /\ UNCHANGED << ldap_groups, tc_groups, tc_users, gi >>
    /\ UNCHANGED << inputs, server, ldap_group_users, tc_group_users, todo,
                    log, mark, run, failed, srvGroups0, srvUsers0 >>

\* ------------------------------------------------------------ start_sync
Group == ldap_groups[gi]

\* Line 427: the loop over ldap_group_users.items() raises on None.
EnterCreateUsers(members) ==
    IF members.kind = "None"
    THEN Crash("AttributeError@427")
    ELSE /\ pc' = "create_users"
         /\ error' = error
         /\ todo' = UsersToCreate(Keys(members), tc_users)

\* Lines 415-418 in the generic flavor: get_group_members raises.
start_sync_members_raise ==
    /\ pc = "loop"
    /\ gi <= Len(ldap_groups)
    /\ get_group_members(directory, args, ldap_type, Group).kind = "raise"
    /\ Crash("AttributeError@193")
    /\ mark' = Len(log)
    /\ UNCHANGED << inputs, server, ldap_groups, tc_groups, tc_users, gi,
                    ldap_group_users, tc_group_users, log, run, failed, srvGroups0, srvUsers0 >>

\* Lines 415-427 for a group the cache holds: no group is created.
start_sync_group_cached ==
    /\ pc = "loop"
    /\ gi <= Len(ldap_groups)
    /\ LET members == get_group_members(directory, args, ldap_type, Group)
       IN  /\ members.kind # "raise"
           /\ ~NeedsCreateGroup(Group, tc_groups)
           /\ ldap_group_users' = members
           /\ EnterCreateUsers(members)
    /\ mark' = Len(log)
    /\ UNCHANGED << inputs, server, ldap_groups, tc_groups, tc_users, gi,
                    tc_group_users, log, run, failed, srvGroups0, srvUsers0 >>

\* Lines 415-427 for a group the cache lacks: create_group posts the name and
\* the key, the answer is not looked at, and the cache is fetched again.
start_sync_create_group ==
    /\ pc = "loop"
    /\ gi <= Len(ldap_groups)
    /\ LET members == get_group_members(directory, args, ldap_type, Group)
       IN  /\ members.kind # "raise"
           /\ NeedsCreateGroup(Group, tc_groups)
           /\ ldap_group_users' = members
           /\ \E delivered \in BOOLEAN :
                 /\ srvGroups' = IF delivered THEN GroupsAfterCreate(srvGroups, Group)
                                 ELSE srvGroups
                 /\ failed' = (failed \/ ~delivered)
           /\ tc_groups' = get_tc_groups(srvGroups')
           /\ log' = Append(log, Mutation("create_group", Group, ""))
           /\ EnterCreateUsers(members)
    /\ mark' = Len(log)
    /\ UNCHANGED << inputs, srvUsers, srvUserGroups, ldap_groups, tc_users, gi,
                    tc_group_users, run, srvGroups0, srvUsers0 >>

\* Lines 427-436: one pass of the loop body for a login the cache of users
\* lacks; create_user posts the profile and the answer is not looked at.
\* The profile (name, email) is read from the directory and only sent on; the
\* username is what the server keeps of it here.
start_sync_create_user ==
    /\ pc = "create_users"
    /\ \E login \in todo :
          /\ \E delivered \in BOOLEAN :
                /\ srvUsers' = IF delivered THEN srvUsers \cup {login} ELSE srvUsers
                /\ failed' = (failed \/ ~delivered)
          /\ log' = Append(log, Mutation("create_user", Group, login))
          /\ todo' = todo \ {login}
    /\ UNCHANGED << inputs, srvGroups, srvUserGroups, ldap_groups, tc_groups, tc_users,
                    gi, ldap_group_users, tc_group_users, pc, error, mark, run, srvGroups0, srvUsers0 >>

\* Lines 438-439, get_users_from_group: an empty cache gives [], a name the
\* cache lacks raises IndexError, an answer other than 200 raises TypeError
\* (str + bytes at line 369).
start_sync_get_users_from_group ==
    /\ pc = "create_users"
    /\ todo = {}
    /\ IF tc_groups = {}
       THEN /\ tc_group_users' = {}
            /\ pc' = "add"
            /\ todo' = UsersToAdd(Keys(ldap_group_users), {})
            /\ UNCHANGED << error, failed >>
       ELSE IF Group \notin Names(tc_groups)
       THEN /\ Crash("IndexError@365")
            /\ UNCHANGED << tc_group_users, failed >>
       ELSE \E delivered \in BOOLEAN :
               IF delivered
               THEN LET key == (CHOOSE g \in tc_groups : g.name = Group).key
                    IN  /\ tc_group_users' = MembersOfKey(key)
                        /\ pc' = "add"
                        /\ todo' = UsersToAdd(Keys(ldap_group_users), tc_group_users')
                        /\ UNCHANGED << error, failed >>
               ELSE /\ Crash("TypeError@369")
                    /\ failed' = TRUE
                    /\ UNCHANGED tc_group_users
    /\ UNCHANGED << inputs, server, ldap_groups, tc_groups, tc_users, gi,
                    ldap_group_users, log, mark, run, srvGroups0, srvUsers0 >>

\* TeamCityClient.get_user_groups answers with the user's groups when the
\* request arrives and the server knows the user, otherwise with a string.
UserGroupsFound(user, delivered) == delivered /\ user \in srvUsers

\* Lines 378-379 with the href and the key built from the name, no lookup.
CachedGroup_Any(group_name, cached) == TRUE

\* Lines 378-379: the href and the key are taken from the cached group of
\* that name; [0] of an empty list raises IndexError.
CachedGroup(group_name, cached) == group_name \in Names(cached)

\* Lines 380-383 with a list that holds the new group alone.
GroupsAfterAdd_Only(user_groups, group_name) == {group_name}

\* Lines 380-383
GroupsAfterAdd(user_groups, group_name) == user_groups \cup {group_name}

\* Lines 392-394 with a loop that drops every group of the list.
GroupsAfterRemove_All(user_groups, group_name) == {}

\* Lines 392-394
GroupsAfterRemove(user_groups, group_name) == user_groups \ {group_name}

\* The server's answer to PUT users/<user>/groups: the list replaces the
\* user's groups when every group of it exists.
PutAccepted(user, groups, delivered) ==
    delivered /\ user \in srvUsers /\ groups \subseteq Names(srvGroups)

\* Lines 441-444, add_user_to_group for one user of the desired members that
\* was not fetched: read the user's groups, append the cached group, replace
\* the list.  A string from get_user_groups raises TypeError at line 383, an
\* answer other than 200 to the PUT raises TypeError at line 387 (str + bytes).
start_sync_add_user ==
    /\ pc = "add"
    /\ \E user \in todo, fetched \in BOOLEAN, delivered \in BOOLEAN :
          IF ~CachedGroup(Group, tc_groups)
          THEN /\ Crash("IndexError@378")
               /\ failed' = (failed \/ ~fetched)
               /\ UNCHANGED << srvUserGroups, log >>
          ELSE IF ~UserGroupsFound(user, fetched)
          THEN /\ Crash("TypeError@383")
               /\ failed' = (failed \/ ~fetched)
               /\ UNCHANGED << srvUserGroups, log >>
          ELSE LET data == GroupsAfterAdd(srvUserGroups[user], Group)
               IN  /\ log' = Append(log, Mutation("add", Group, user))
                   /\ IF PutAccepted(user, data, delivered)
                      THEN /\ srvUserGroups' = [srvUserGroups EXCEPT ![user] = data]
                           /\ todo' = todo \ {user}
                           /\ UNCHANGED << pc, error, failed >>
                      ELSE /\ Crash("TypeError@387")
                           /\ failed' = TRUE
                           /\ UNCHANGED srvUserGroups
    /\ UNCHANGED << inputs, srvGroups, srvUsers, ldap_groups, tc_groups, tc_users, gi,
                    ldap_group_users, tc_group_users, mark, run, srvGroups0, srvUsers0 >>

\* Lines 446-447: the additions are over, the loop over the fetched users starts.
start_sync_begin_remove ==
    /\ pc = "add"
    /\ todo = {}
    /\ pc' = "remove"
    /\ todo' = UsersToRemove(Keys(ldap_group_users), tc_group_users)
    /\ UNCHANGED << inputs, server, ldap_groups, tc_groups, tc_users, gi, ldap_group_users,
                    tc_group_users, error, log, mark, run, failed, srvGroups0, srvUsers0 >>

\* Lines 447-449, remove_user_from_group for one fetched user that is not
\* desired: read the user's groups, drop the group, replace the list.
start_sync_remove_user ==
    /\ pc = "remove"
    /\ \E user \in todo, fetched \in BOOLEAN, delivered \in BOOLEAN :
          IF ~UserGroupsFound(user, fetched)
          THEN /\ Crash("TypeError@392")
               /\ failed' = (failed \/ ~fetched)
               /\ UNCHANGED << srvUserGroups, log >>
          ELSE LET data == GroupsAfterRemove(srvUserGroups[user], Group)
               IN  /\ log' = Append(log, Mutation("remove", Group, user))
                   /\ IF PutAccepted(user, data, delivered)
                      THEN /\ srvUserGroups' = [srvUserGroups EXCEPT ![user] = data]
                           /\ todo' = todo \ {user}
                           /\ UNCHANGED << pc, error, failed >>
                      ELSE /\ Crash("TypeError@398")
                           /\ failed' = TRUE
                           /\ UNCHANGED srvUserGroups
    /\ UNCHANGED << inputs, srvGroups, srvUsers, ldap_groups, tc_groups, tc_users, gi,
                    ldap_group_users, tc_group_users, mark, run, srvGroups0, srvUsers0 >>

\* Line 415: the removals are over, the outer loop takes the next group.
start_sync_next_group ==
    /\ pc = "remove"
    /\ todo = {}
    /\ gi' = gi + 1
    /\ pc' = "loop"
    /\ UNCHANGED << inputs, server, ldap_groups, tc_groups, tc_users, ldap_group_users,
                    tc_group_users, todo, error, log, mark, run, failed, srvGroups0, srvUsers0 >>

\* Lines 473-475: start_sync returns and main ends with exit status 0.
main_complete ==
    /\ pc = "loop"
    /\ gi > Len(ldap_groups)
    /\ pc' = "done"
    /\ UNCHANGED << inputs, server, ldap_groups, tc_groups, tc_users, gi, ldap_group_users,
                    tc_group_users, todo, error, log, mark, run, failed, srvGroups0, srvUsers0 >>

\* The next scheduled run of main after a completed one: a new process with
\* the same configuration and directory, and the server as the run left it.
main_again ==
    /\ pc = "done"
    /\ run < MaxRuns
    /\ run' = run + 1
    /\ pc' = "main"
    /\ ldap_groups' = <<>>
    /\ tc_groups' = {}
    /\ tc_users' = {}
    /\ gi' = 0
    /\ ldap_group_users' = NoneMembers
    /\ tc_group_users' = {}
    /\ todo' = {}
    /\ log' = <<>>
    /\ mark' = 0
    /\ srvGroups0' = Names(srvGroups)
    /\ srvUsers0' = srvUsers
    /\ UNCHANGED << inputs, server, error, failed >>

Next ==
    \/ main_literal
    \/ main_wildcard
    \/ start_sync_members_raise
    \/ start_sync_group_cached
    \/ start_sync_create_group
    \/ start_sync_create_user
    \/ start_sync_get_users_from_group
    \/ start_sync_add_user
    \/ start_sync_begin_remove
    \/ start_sync_remove_user
    \/ start_sync_next_group
    \/ main_complete
    \/ main_again

Spec == Init /\ [][Next]_vars

\* ------------------------------------------------------------- properties
\* The desired and the fetched usernames of the group being processed.
Desired  == Keys(ldap_group_users)
Observed == tc_group_users

\* The users of the membership requests sent since the group was entered.
SentSince(op) == {log[i].user : i \in {j \in (mark + 1)..Len(log) : log[j].op = op}}

\* The group at position gi - 1 has been processed to the end.
GroupFinished == pc \in {"loop", "done"} /\ gi > 1
FinishedGroup == ldap_groups[gi - 1]

\* The members of a group as the server holds them.
ServerMembers(group_name) == {u \in srvUsers : group_name \in srvUserGroups[u]}

\* C1: the additions sent for a group are users of D \ O and the removals are
\* users of O \ D, where D is the desired and O the fetched set of usernames;
\* when the group has been processed to the end they are exactly D \ O and
\* O \ D; no (group, user) pair of a run gets both an addition and a removal.
C1_DiffExact ==
    /\ pc \in {"add", "remove", "loop", "done", "crashed"} =>
          /\ SentSince("add") \subseteq Desired \ Observed
          /\ SentSince("remove") \subseteq Observed \ Desired
    /\ pc = "remove" => SentSince("add") = Desired \ Observed
    /\ GroupFinished =>
          /\ SentSince("add") = Desired \ Observed
          /\ SentSince("remove") = Observed \ Desired
    /\ \A i, j \in 1..Len(log) :
          ~(/\ log[i].op = "add"
            /\ log[j].op = "remove"
            /\ log[i].group = log[j].group
            /\ log[i].user = log[j].user)

\* C1 witness: a group was processed to the end with an addition and a removal.
C1_Witness ==
    /\ GroupFinished
    /\ SentSince("add") # {}
    /\ SentSince("remove") # {}
    /\ Desired \cap Observed # {}

SentInRun(op, group_name) == \E i \in 1..Len(log) : log[i].op = op /\ log[i].group = group_name

\* C2: when a group that the server already held at the start of the run has
\* been processed to the end and no request failed, no create-group was sent
\* for it, the additions are D \ O, the removals are O \ D and the server's
\* members of the group are the desired members.
C2_ExistingGroupReconciled ==
    (GroupFinished /\ ~failed /\ FinishedGroup \in srvGroups0) =>
        /\ ~SentInRun("create_group", FinishedGroup)
        /\ SentSince("add") = Desired \ Observed
        /\ SentSince("remove") = Observed \ Desired
        /\ ServerMembers(FinishedGroup) = Desired

\* C3: a run that follows a completed run, with no failed request so far and
\* the same directory and configuration, sends no mutating request.
C3_SecondRunSendsNothing ==
    (run > 1 /\ ~failed) => log = <<>>

HasEntry(group_name) == SearchGroups(directory, group_name) # <<>>

\* C5: a group without a directory entry is skipped: no request is sent for
\* it and the run is not ended by it (also when every request arrives).
C5_MissingGroupSkipped ==
    ~failed =>
        /\ \A i \in 1..Len(log) : HasEntry(log[i].group)
        /\ ~(pc = "crashed" /\ error = "AttributeError@427")

\* The exceptions that a failed fetch of a user's groups (lines 383, 392) and
\* a failed replace of them (lines 387, 398) raise in the client.
TargetFailureErrors == {"TypeError@383", "TypeError@387", "TypeError@392", "TypeError@398"}

\* C6: a failed TeamCity request for one user does not end the run.
C6_FailureSkipsOneMutation ==
    pc = "crashed" => error \notin TargetFailureErrors

Matches(spec) == get_groups_with_wildcard(directory, spec)

\* C7 as stated: with -w, a configured pattern without a match leaves the run
\* aborted, with no request sent, whatever the other patterns match.
C7_EachPatternFatal ==
    (args.wildcard_search /\ \E i \in 1..Len(config_groups) : Matches(config_groups[i]) = <<>>) =>
        /\ pc \in {"main", "aborted"}
        /\ log = <<>>

\* C7 amended: with -w the run is aborted, with no request sent, exactly when
\* all the configured patterns together match no group.
C7_AllPatternsFatal ==
    /\ (args.wildcard_search /\ \A i \in 1..Len(config_groups) : Matches(config_groups[i]) = <<>>) =>
          /\ pc \in {"main", "aborted"}
          /\ log = <<>>
    /\ pc = "aborted" =>
          /\ args.wildcard_search
          /\ \A i \in 1..Len(config_groups) : Matches(config_groups[i]) = <<>>
          /\ log = <<>>
          /\ error = "SystemExit"

\* C7 witness: the run was aborted at the expansion.
C7_Witness ==
    /\ pc = "aborted"
    /\ args.wildcard_search
    /\ log = <<>>

\* The users a group entry refers to that pass the filters of the run.
ResolvableMembers(entry) ==
    {u \in Range(DirUsers) : u.dn \in Range(entry.member) /\ (args.skip_disabled => ~u.disabled)}

\* C8: in direct mode the resolved members of a group are all the users its
\* member references resolve to.
C8_DirectModeAllMembers ==
    (/\ pc \in {"create_users", "add", "remove"}
     /\ ldap_type = "activedirectory"
     /\ ~args.recursive) =>
        LET found == SearchGroups(directory, Group)
        IN  Desired = {Username(args, u) : u \in ResolvableMembers(found[Len(found)])}

\* C9: a run in which every request arrives sends create-user only for a
\* user the server does not hold at the start or by an earlier create-user:
\* at most once per username.
C9_CreateUserOnce ==
    ~failed => \A i \in 1..Len(log) :
        log[i].op = "create_user" =>
            /\ log[i].user \notin srvUsers0
            /\ \A j \in 1..(i - 1) : ~(log[j].op = "create_user" /\ log[j].user = log[i].user)

\* The positions of the groups that are past the create-group step.
PastCreateGroup ==
    {k \in 1..Len(ldap_groups) : k < gi \/ (k = gi /\ pc \in {"create_users", "add", "remove"})}

\* C10: create-group is sent for a group exactly when the server holds no
\* group of that name (also when every request arrives).
C10_CreateGroupIffAbsent ==
    ~failed => \A k \in PastCreateGroup :
        SentInRun("create_group", ldap_groups[k]) <=> ldap_groups[k] \notin srvGroups0

IsLower(name) == name = lower(name)

\* The usernames of the requests of the given kinds sent in this run.
SentUsers(ops) == {log[i].user : i \in {j \in 1..Len(log) : log[j].op \in ops}}

Resolved == ldap_group_users.kind = "dict"

\* C11 as stated: with -l, the desired usernames and the usernames of every
\* create-user, add-membership and remove-membership request are lower-case.
C11_AllUsernamesLower ==
    args.lowercase =>
        /\ Resolved => \A name \in Desired : IsLower(name)
        /\ \A name \in SentUsers({"create_user", "add", "remove"}) : IsLower(name)

\* C11 amended: with -l in the Active Directory flavor, the desired usernames
\* and the usernames of every create-user and add-membership request are
\* lower-case (a remove-membership names the user as the server reports it).
C11_DirectoryUsernamesLower ==
    (args.lowercase /\ ldap_type = "activedirectory") =>
        /\ Resolved => \A name \in Desired : IsLower(name)
        /\ \A name \in SentUsers({"create_user", "add"}) : IsLower(name)

\* C11 witness: with -l the directory user Bob was resolved as bob, created
\* under that name and added to the group.
C11_Witness ==
    /\ args.lowercase
    /\ ldap_type = "activedirectory"
    /\ Resolved
    /\ "bob" \in Desired
    /\ "bob" \in SentUsers({"create_user"})
    /\ \E i \in 1..Len(log) :
          log[i].op = "add" /\ log[i].user = "bob" /\ log[i].group \in srvUserGroups["bob"]

\* A chain of group entries of dir, each nested in the one before it.
IsChain(dir, p) ==
    \A k \in 1..(Len(p) - 1) : dir[p[k + 1]].dn \in Range(dir[p[k]].member)

\* For each directory and each of its group entries, the DNs the entry holds
\* directly or through a chain of nested groups (chains without a repeated
\* entry are enough, so their length is at most the number of entries).
TransitiveMembers ==
    [dir \in Directories |->
        [i \in 1..Len(dir) |->
            UNION {Range(dir[p[Len(p)]].member) :
                     p \in {q \in UNION {[1..n -> 1..Len(dir)] : n \in 1..Len(dir)} :
                               q[1] = i /\ IsChain(dir, q)}}]]

\* The groups of dir that lie on a cycle of the nesting relation.
OnCycle(dir, i) == dir[i].dn \in TransitiveMembers[dir][i]

GroupIndex ==
    CHOOSE k \in 1..Len(directory) :
        /\ directory[k].cn = Group
        /\ \A j \in (k + 1)..Len(directory) : directory[j].cn # Group

\* The directory users that are members of the group in progress in the
\* mode of the run: through nested groups with -r, by its own list without.
ModeMembers ==
    {u \in Range(DirUsers) :
        IF args.recursive
        THEN u.dn \in TransitiveMembers[directory][GroupIndex]
        ELSE u.dn \in Range(directory[GroupIndex].member)}

\* C13: with -s no disabled account is among the resolved members of a group,
\* with or without -r; without -s the disabled members of the group are
\* among them.
C13_DisabledFilter ==
    (/\ pc \in {"create_users", "add", "remove"}
     /\ ldap_type = "activedirectory") =>
        \A u \in ModeMembers :
            u.disabled => (Username(args, u) \in Desired <=> ~args.skip_disabled)

\* The request at position i of log replaced the user's list: all but a last
\* one that the server refused (lines 387, 398).
Replaced(i) ==
    /\ log[i].op \in {"add", "remove"}
    /\ ~(i = Len(log) /\ pc = "crashed" /\ error \in {"TypeError@387", "TypeError@398"})

\* The last replace of the given kinds for the user and group of position i
\* is the one at position i.
LastChange(i) ==
    \A j \in (i + 1)..Len(log) :
        ~(Replaced(j) /\ log[j].user = log[i].user /\ log[j].group = log[i].group)

\* C14: the read-modify-writes of a user's group list follow one another, so
\* no change is lost: after any number of them the user's list on the server
\* has every group whose last change was an add and none whose last change
\* was a remove.
C14_NoLostUpdate ==
    \A i \in 1..Len(log) :
        (Replaced(i) /\ LastChange(i)) =>
            (log[i].group \in srvUserGroups[log[i].user] <=> log[i].op = "add")

\* C14 witness: one user's list was replaced twice, for two groups, and holds
\* both changes.
C14_Witness ==
    \E i, j \in 1..Len(log) :
        /\ i < j
        /\ Replaced(i) /\ Replaced(j)
        /\ log[i].op = "add"
        /\ log[i].user = log[j].user
        /\ log[i].group # log[j].group
        /\ log[i].group \in srvUserGroups[log[i].user]
        /\ (log[j].group \in srvUserGroups[log[j].user] <=> log[j].op = "add")

\* C15: a step that changes a membership on the server is an add or a remove
\* that was just sent, and it changes the membership of that request's user
\* in that request's group and no other: the user's other groups, configured
\* or not, and the other users' groups stay as they were.
C15_MembershipFrame ==
    [][srvUserGroups' # srvUserGroups =>
          /\ log' = Append(log, log'[Len(log')])
          /\ LET m == log'[Len(log')]
             IN  /\ m.op \in {"add", "remove"}
                 /\ m.group \in srvUserGroups'[m.user] <=> m.op = "add"
                 /\ \A u \in UserNames : u # m.user => srvUserGroups'[u] = srvUserGroups[u]
                 /\ srvUserGroups'[m.user] \ {m.group} = srvUserGroups[m.user] \ {m.group}
      ]_vars

\* C15 witness: a user was removed from a configured group and still is in a
\* group that is not configured, and another user was added to a group and
\* still is in another one.
C15_Witness ==
    \E i, j \in 1..Len(log) :
        /\ Replaced(i) /\ Replaced(j)
        /\ log[i].op = "remove"
        /\ log[i].group \notin srvUserGroups[log[i].user]
        /\ srvUserGroups[log[i].user] \ Range(ldap_groups) # {}
        /\ log[j].op = "add"
        /\ srvUserGroups[log[j].user] \ {log[j].group} # {}

\* The names of the create-group requests of the run.
CreatedNames == {log[i].group : i \in {j \in 1..Len(log) : log[j].op = "create_group"}}

\* C16: no two different group names of a run are sent to creation with the
\* same key (also in a run in which every request arrives), and the key used
\* for a group's members or for an add is that of the one server group that
\* has exactly the group's name.
C16_KeysUnambiguous ==
    /\ ~failed => \A n1, n2 \in CreatedNames : n1 # n2 => GroupKey(n1) # GroupKey(n2)
    /\ (pc \in {"add", "remove"} /\ tc_groups # {}) =>
          \A g \in tc_groups : g.name = Group =>
              /\ g \in srvGroups
              /\ \A h \in srvGroups : (h.name = Group \/ h.key = g.key) => h = g
====
